---- MODULE Spec2Model ----
(***************************************************************************)
(* A model of train_ssl.py: the training loop train(), the evaluation      *)
(* run_test() with its cross-rank metric aggregation, and the helper       *)
(* strip_prefix_if_present().                                              *)
(*                                                                         *)
(* Three state machines share the module:                                  *)
(*   Spec / FairSpec  train(): one process per rank, one action per        *)
(*                    statement group of the loop body;                    *)
(*   SpecTest         run_test() in a distributed run, batch by batch,     *)
(*                    with the three all_reduce collectives;               *)
(*   SpecStrip        strip_prefix_if_present() applied to a state dict,   *)
(*                    and applied again to its own result.                 *)
(***************************************************************************)
EXTENDS Integers, Sequences, FiniteSets, TLC

(***************************************************************************)
(* Bounds of the model.                                                    *)
(***************************************************************************)
\* cfg.SOLVER.MAX_ITER and cfg.SOLVER.STOP_ITER range over 1..MaxIter
MaxIter == 3
\* cfg.SOLVER.CHECKPOINT_PERIOD ranges over 1..MaxPeriod
MaxPeriod == 2
\* len(train_loader) ranges over 0..MaxBatches
MaxBatches == 3
\* an mIoU returned by run_test is one of the levels 0..MaxMiou
MaxMiou == 2
\* the number of processes ranges over 1..WorldSize; 1 is the non-distributed run
WorldSize == 2
\* len(test_loader) on each rank ranges over 0..MaxTestBatches
MaxTestBatches == 2
\* a state dict given to strip_prefix_if_present has at most MaxKeys entries
MaxKeys == 2

VARIABLES
  \* ---- train(): configuration and environment, fixed after Init
  cfg,            \* cfg.SOLVER.MAX_ITER, STOP_ITER, CHECKPOINT_PERIOD, LR_*, cfg.resume
  world,          \* number of processes; distributed iff world > 1
  nbatches,       \* len(train_loader), the same on every rank
  test_batches,   \* len(test_loader), the same on every rank
  \* ---- train(): shared
  disk,           \* output_dir: model_best.pth and model_current.pth
  \* ---- train(): per rank (functions over 0..world-1)
  pc,             \* position in train()
  fetched,        \* batches taken from enumerate(train_loader)
  iteration,      \* line 79 / 141
  best_mIoU,      \* line 117 / 178
  best_iteration, \* line 118 / 179
  current_mIoU,   \* line 168
  lr_fea,         \* optimizer_fea.param_groups[*]['lr']
  lr_cls,         \* optimizer_cls.param_groups[*]['lr']
  training,       \* .training flag of feature_extractor and classifier
  grad,           \* state of the gradients of the two parameter sets
  weights,        \* version of the weights of the two networks
  opt_steps,      \* steps taken by optimizer_fea and optimizer_cls
  \* ---- train(): history
  evalLog,        \* per rank: the iterations at which run_test was called
  miouLog,        \* the mIoU values run_test returned to rank 0, in order
  writeLog,       \* per rank: the torch.save calls made
  events,         \* per rank: the events of the current iteration, in order
  \* ---- run_test() in detail (SpecTest)
  tst,
  \* ---- strip_prefix_if_present (SpecStrip)
  sp

trainVars == <<cfg, world, nbatches, test_batches, disk, pc, fetched, iteration, best_mIoU,
               best_iteration, current_mIoU, lr_fea, lr_cls, training, grad,
               weights, opt_steps, evalLog, miouLog, writeLog, events>>
vars == <<trainVars, tst, sp>>

Ranks == 0 .. (world - 1)

(***************************************************************************)
(* Helpers                                                                 *)
(***************************************************************************)
Min2(a, b) == IF a <= b THEN a ELSE b
Max2(a, b) == IF a >= b THEN a ELSE b

RECURSIVE SeqMax(_)
SeqMax(s) == IF s = <<>> THEN 0 ELSE Max2(Head(s), SeqMax(Tail(s)))

IsPrefix(s, t) == Len(s) <= Len(t) /\ SubSeq(t, 1, Len(s)) = s

(***************************************************************************)
(* Values                                                                  *)
(***************************************************************************)
\* No file at that path.
Absent == [run |-> "absent", iteration |-> 0, feature_extractor |-> <<"none", 0>>,
           classifier |-> <<"none", 0>>, optimizer_fea |-> 0, optimizer_cls |-> 0,
           mIoU |-> 0]

\* The checkpoint an earlier run left behind: the file cfg.resume names, also
\* present as model_best.pth in output_dir. Its mIoU (not a field of the file:
\* what that run measured when it wrote it) is the highest level.
PrevCkpt == [run |-> "previous", iteration |-> MaxIter,
             feature_extractor |-> <<"previous", MaxIter>>,
             classifier |-> <<"previous", MaxIter>>,
             optimizer_fea |-> MaxIter, optimizer_cls |-> MaxIter,
             mIoU |-> MaxMiou]

\* core.solver.adjust_learning_rate is outside src/: it is left uninterpreted,
\* its result the term of its arguments, so that what is checked about the
\* learning rates holds whatever formula the scheduler computes.
adjust_learning_rate(method, base_lr, iters, max_iters, power) ==
  <<"lr", method, base_lr, iters, max_iters, power>>

\* x * 10 on a learning rate (lines 71, 127)
Times10(x) == <<"*10", x>>

\* line 77: save_to_disk = local_rank == 0
save_to_disk(r) == r = 0

\* Mutant: a tie counts as a new best.
IsNewBest_ge(cur, best) == cur >= best

\* line 173: current_mIoU > best_mIoU
IsNewBest(cur, best) == cur > best

\* Mutant: no evaluation at STOP_ITER unless the period falls on it.
EvalDue_period_only(it) == it % cfg.CHECKPOINT_PERIOD = 0

\* line 167: iteration % CHECKPOINT_PERIOD == 0 or iteration == STOP_ITER
EvalDue(it) == it % cfg.CHECKPOINT_PERIOD = 0 \/ it = cfg.STOP_ITER

\* lines 175-177 / 182-184: the dictionary torch.save writes
Checkpoint(r) ==
  [run |-> "this", iteration |-> iteration[r],
   feature_extractor |-> weights[r].feature_extractor,
   classifier |-> weights[r].classifier,
   optimizer_fea |-> opt_steps[r].fea, optimizer_cls |-> opt_steps[r].cls,
   mIoU |-> current_mIoU[r]]

(***************************************************************************)
(* train(): initial state (the process has been started, train() entered)  *)
(***************************************************************************)
Configs ==
  [MAX_ITER : 1 .. MaxIter, STOP_ITER : 1 .. MaxIter,
   CHECKPOINT_PERIOD : 1 .. MaxPeriod,
   LR_METHOD : {"poly"}, BASE_LR : {<<"base_lr">>}, LR_POWER : {"power"},
   resume : {"", "model_best.pth"}]

InitTrain ==
  /\ cfg \in Configs
  /\ world \in 1 .. WorldSize
  /\ nbatches \in 0 .. MaxBatches
  /\ test_batches \in {0, MaxTestBatches}
  /\ disk = [best |-> IF cfg.resume # "" THEN PrevCkpt ELSE Absent, current |-> Absent]
  /\ pc = [r \in Ranks |-> "start"]
  /\ fetched = [r \in Ranks |-> 0]
  /\ iteration = [r \in Ranks |-> 0]
  /\ best_mIoU = [r \in Ranks |-> 0]
  /\ best_iteration = [r \in Ranks |-> 0]
  /\ current_mIoU = [r \in Ranks |-> 0]
  /\ lr_fea = [r \in Ranks |-> <<cfg.BASE_LR>>]
  /\ lr_cls = [r \in Ranks |-> <<Times10(cfg.BASE_LR)>>]
  /\ training = [r \in Ranks |-> [feature_extractor |-> TRUE, classifier |-> TRUE]]
  /\ grad = [r \in Ranks |-> [fea |-> "zero", cls |-> "zero"]]
  /\ weights = [r \in Ranks |-> [feature_extractor |-> <<"init", 0>>,
                                 classifier |-> <<"init", 0>>]]
  /\ opt_steps = [r \in Ranks |-> [fea |-> 0, cls |-> 0]]
  /\ evalLog = [r \in Ranks |-> <<>>]
  /\ miouLog = <<>>
  /\ writeLog = [r \in Ranks |-> <<>>]
  /\ events = [r \in Ranks |-> <<>>]

(***************************************************************************)
(* train(): actions                                                        *)
(***************************************************************************)
\* Mutant: a resumed run restores the counters and the optimizers it finds in
\* the checkpoint.
Start_restore(r) ==
  /\ pc[r] = "start"
  /\ iteration' = [iteration EXCEPT ![r] = IF cfg.resume # "" THEN PrevCkpt.iteration ELSE 0]
  /\ weights' = [weights EXCEPT ![r] =
        IF cfg.resume # ""
        THEN [feature_extractor |-> PrevCkpt.feature_extractor,
              classifier |-> PrevCkpt.classifier]
        ELSE @]
  /\ opt_steps' = [opt_steps EXCEPT ![r] =
        IF cfg.resume # ""
        THEN [fea |-> PrevCkpt.optimizer_fea, cls |-> PrevCkpt.optimizer_cls]
        ELSE @]
  /\ training' = [training EXCEPT ![r] = [feature_extractor |-> TRUE, classifier |-> TRUE]]
  /\ best_mIoU' = [best_mIoU EXCEPT ![r] = IF cfg.resume # "" THEN PrevCkpt.mIoU ELSE 0]
  /\ best_iteration' = [best_iteration EXCEPT ![r] =
        IF cfg.resume # "" THEN PrevCkpt.iteration ELSE 0]
  /\ pc' = [pc EXCEPT ![r] = "loop"]
  /\ UNCHANGED <<cfg, world, nbatches, test_batches, disk, fetched, current_mIoU, lr_fea, lr_cls,
                 grad, evalLog, miouLog, writeLog, events, tst, sp>>

\* lines 79-118: iteration = 0; load the weights if cfg.resume; both networks
\* to training mode; best_mIoU = 0; best_iteration = 0
Start(r) ==
  /\ pc[r] = "start"
  /\ iteration' = [iteration EXCEPT ![r] = 0]
  /\ weights' = [weights EXCEPT ![r] =
        IF cfg.resume # ""
        THEN [feature_extractor |-> PrevCkpt.feature_extractor,
              classifier |-> PrevCkpt.classifier]
        ELSE @]
  /\ training' = [training EXCEPT ![r] = [feature_extractor |-> TRUE, classifier |-> TRUE]]
  /\ best_mIoU' = [best_mIoU EXCEPT ![r] = 0]
  /\ best_iteration' = [best_iteration EXCEPT ![r] = 0]
  /\ pc' = [pc EXCEPT ![r] = "loop"]
  /\ UNCHANGED <<cfg, world, nbatches, test_batches, disk, fetched, current_mIoU, lr_fea, lr_cls,
                 grad, opt_steps, evalLog, miouLog, writeLog, events, tst, sp>>

\* line 120: the for statement takes the next batch, or ends the loop
LoopNext(r) ==
  /\ pc[r] = "loop"
  /\ IF fetched[r] < nbatches
     THEN /\ fetched' = [fetched EXCEPT ![r] = @ + 1]
          /\ events' = [events EXCEPT ![r] = <<>>]
          /\ pc' = [pc EXCEPT ![r] = "set_lr"]
     ELSE /\ pc' = [pc EXCEPT ![r] = "done"]
          /\ UNCHANGED <<fetched, events>>
  /\ UNCHANGED <<cfg, world, nbatches, test_batches, disk, iteration, best_mIoU, best_iteration,
                 current_mIoU, lr_fea, lr_cls, training, grad, weights, opt_steps,
                 evalLog, miouLog, writeLog, tst, sp>>

\* Mutant: the schedule's horizon is STOP_ITER.
SetLR_stop_horizon(r) ==
  /\ pc[r] = "set_lr"
  /\ LET current_lr == adjust_learning_rate(cfg.LR_METHOD, cfg.BASE_LR, iteration[r],
                                            cfg.STOP_ITER, cfg.LR_POWER)
     IN /\ lr_fea' = [lr_fea EXCEPT ![r] = [index \in DOMAIN @ |-> current_lr]]
        /\ lr_cls' = [lr_cls EXCEPT ![r] = [index \in DOMAIN @ |-> Times10(current_lr)]]
  /\ events' = [events EXCEPT ![r] = Append(@, "set_lr")]
  /\ pc' = [pc EXCEPT ![r] = "zero_grad"]
  /\ UNCHANGED <<cfg, world, nbatches, test_batches, disk, fetched, iteration, best_mIoU,
                 best_iteration, current_mIoU, training, grad, weights, opt_steps,
                 evalLog, miouLog, writeLog, tst, sp>>

\* lines 122-127
SetLR(r) ==
  /\ pc[r] = "set_lr"
  /\ LET current_lr == adjust_learning_rate(cfg.LR_METHOD, cfg.BASE_LR, iteration[r],
                                            cfg.MAX_ITER, cfg.LR_POWER)
     IN /\ lr_fea' = [lr_fea EXCEPT ![r] = [index \in DOMAIN @ |-> current_lr]]
        /\ lr_cls' = [lr_cls EXCEPT ![r] = [index \in DOMAIN @ |-> Times10(current_lr)]]
  /\ events' = [events EXCEPT ![r] = Append(@, "set_lr")]
  /\ pc' = [pc EXCEPT ![r] = "zero_grad"]
  /\ UNCHANGED <<cfg, world, nbatches, test_batches, disk, fetched, iteration, best_mIoU,
                 best_iteration, current_mIoU, training, grad, weights, opt_steps,
                 evalLog, miouLog, writeLog, tst, sp>>

\* lines 129-130
ZeroGrad(r) ==
  /\ pc[r] = "zero_grad"
  /\ grad' = [grad EXCEPT ![r] = [fea |-> "zero", cls |-> "zero"]]
  /\ events' = [events EXCEPT ![r] = Append(@, "zero_grad")]
  /\ pc' = [pc EXCEPT ![r] = "forward"]
  /\ UNCHANGED <<cfg, world, nbatches, test_batches, disk, fetched, iteration, best_mIoU,
                 best_iteration, current_mIoU, lr_fea, lr_cls, training, weights,
                 opt_steps, evalLog, miouLog, writeLog, tst, sp>>

\* lines 131-135: the forward pass and the loss
Forward(r) ==
  /\ pc[r] = "forward"
  /\ events' = [events EXCEPT ![r] = Append(@, "forward")]
  /\ pc' = [pc EXCEPT ![r] = "backward"]
  /\ UNCHANGED <<cfg, world, nbatches, test_batches, disk, fetched, iteration, best_mIoU,
                 best_iteration, current_mIoU, lr_fea, lr_cls, training, grad, weights,
                 opt_steps, evalLog, miouLog, writeLog, tst, sp>>

\* line 136: loss.backward(). Under DistributedDataParallel (lines 51-59) the
\* gradients are reduced across the ranks during backward, so the ranks leave
\* it together.
Backward ==
  /\ \A r \in Ranks : pc[r] = "backward"
  /\ grad' = [r \in Ranks |-> [fea |-> "fresh", cls |-> "fresh"]]
  /\ events' = [r \in Ranks |-> Append(events[r], "backward")]
  /\ pc' = [r \in Ranks |-> "step_fea"]
  /\ UNCHANGED <<cfg, world, nbatches, test_batches, disk, fetched, iteration, best_mIoU,
                 best_iteration, current_mIoU, lr_fea, lr_cls, training, weights,
                 opt_steps, evalLog, miouLog, writeLog, tst, sp>>

\* Mutant: optimizer_cls.step() is left out.
StepFea_skip_cls(r) ==
  /\ pc[r] = "step_fea"
  /\ weights' = [weights EXCEPT ![r].feature_extractor = <<@[1], @[2] + 1>>]
  /\ opt_steps' = [opt_steps EXCEPT ![r].fea = @ + 1]
  /\ grad' = [grad EXCEPT ![r].fea = "used"]
  /\ events' = [events EXCEPT ![r] = Append(@, "step_fea")]
  /\ pc' = [pc EXCEPT ![r] = "incr"]
  /\ UNCHANGED <<cfg, world, nbatches, test_batches, disk, fetched, iteration, best_mIoU,
                 best_iteration, current_mIoU, lr_fea, lr_cls, training,
                 evalLog, miouLog, writeLog, tst, sp>>

\* line 138
StepFea(r) ==
  /\ pc[r] = "step_fea"
  /\ weights' = [weights EXCEPT ![r].feature_extractor = <<@[1], @[2] + 1>>]
  /\ opt_steps' = [opt_steps EXCEPT ![r].fea = @ + 1]
  /\ grad' = [grad EXCEPT ![r].fea = "used"]
  /\ events' = [events EXCEPT ![r] = Append(@, "step_fea")]
  /\ pc' = [pc EXCEPT ![r] = "step_cls"]
  /\ UNCHANGED <<cfg, world, nbatches, test_batches, disk, fetched, iteration, best_mIoU,
                 best_iteration, current_mIoU, lr_fea, lr_cls, training,
                 evalLog, miouLog, writeLog, tst, sp>>

\* line 139
StepCls(r) ==
  /\ pc[r] = "step_cls"
  /\ weights' = [weights EXCEPT ![r].classifier = <<@[1], @[2] + 1>>]
  /\ opt_steps' = [opt_steps EXCEPT ![r].cls = @ + 1]
  /\ grad' = [grad EXCEPT ![r].cls = "used"]
  /\ events' = [events EXCEPT ![r] = Append(@, "step_cls")]
  /\ pc' = [pc EXCEPT ![r] = "incr"]
  /\ UNCHANGED <<cfg, world, nbatches, test_batches, disk, fetched, iteration, best_mIoU,
                 best_iteration, current_mIoU, lr_fea, lr_cls, training,
                 evalLog, miouLog, writeLog, tst, sp>>

\* line 141
Incr(r) ==
  /\ pc[r] = "incr"
  /\ iteration' = [iteration EXCEPT ![r] = @ + 1]
  /\ events' = [events EXCEPT ![r] = Append(@, "incr")]
  /\ pc' = [pc EXCEPT ![r] = "eval_test"]
  /\ UNCHANGED <<cfg, world, nbatches, test_batches, disk, fetched, best_mIoU, best_iteration,
                 current_mIoU, lr_fea, lr_cls, training, grad, weights, opt_steps,
                 evalLog, miouLog, writeLog, tst, sp>>

\* line 167, and when the test is true the call of run_test up to its
\* feature_extractor.eval(); classifier.eval() (lines 168, 201-228)
EvalTest(r) ==
  /\ pc[r] = "eval_test"
  /\ IF EvalDue(iteration[r])
     THEN /\ evalLog' = [evalLog EXCEPT ![r] = Append(@, iteration[r])]
          /\ training' = [training EXCEPT ![r] =
                            [feature_extractor |-> FALSE, classifier |-> FALSE]]
          /\ events' = [events EXCEPT ![r] = Append(@, "run_test")]
          /\ pc' = [pc EXCEPT ![r] = "test_run"]
     ELSE /\ pc' = [pc EXCEPT ![r] = "break_test"]
          /\ UNCHANGED <<evalLog, training, events>>
  /\ UNCHANGED <<cfg, world, nbatches, test_batches, disk, fetched, iteration, best_mIoU,
                 best_iteration, current_mIoU, lr_fea, lr_cls, grad, weights,
                 opt_steps, miouLog, writeLog, tst, sp>>

\* lines 229-263 with a test loader that yields at least one batch. The ranks
\* hold the same weights and, in a distributed run, meet in the all_reduce
\* calls of lines 241-243 in every pass of the loop (SpecTest models that), so
\* they leave the last pass together with one and the same mIoU. Every meter
\* has been updated with an array, so lines 251-255 raise nothing.
RunTest ==
  /\ test_batches > 0
  /\ \A r \in Ranks : pc[r] = "test_run"
  /\ \E m \in 0 .. MaxMiou :
       /\ current_mIoU' = [r \in Ranks |-> m]
       /\ miouLog' = Append(miouLog, m)
  /\ pc' = [r \in Ranks |-> "train_mode"]
  /\ UNCHANGED <<cfg, world, nbatches, test_batches, disk, fetched, iteration, best_mIoU,
                 best_iteration, lr_fea, lr_cls, training, grad, weights, opt_steps,
                 evalLog, writeLog, events, tst, sp>>

\* lines 229-263 with a test loader that yields no batch: the loop of line 231
\* has no pass, so no all_reduce is called and the rank waits for no other
\* rank. No meter has been updated, so intersection_meter.sum is still the
\* number a new AverageMeter() starts with (NewMeter): lines 251-254 compute
\* with it, and sum(intersection_meter.sum) of line 255 raises TypeError.
\* run_test does not return and train() ends there, current_mIoU unassigned
\* and nothing saved.
RunTestEmpty(r) ==
  /\ test_batches = 0
  /\ pc[r] = "test_run"
  /\ pc' = [pc EXCEPT ![r] = "raised"]
  /\ UNCHANGED <<cfg, world, nbatches, test_batches, disk, fetched, iteration, best_mIoU,
                 best_iteration, current_mIoU, lr_fea, lr_cls, training, grad, weights,
                 opt_steps, evalLog, miouLog, writeLog, events, tst, sp>>

\* Mutant: only the feature extractor is switched back.
TrainMode_fea_only(r) ==
  /\ pc[r] = "train_mode"
  /\ training' = [training EXCEPT ![r].feature_extractor = TRUE]
  /\ pc' = [pc EXCEPT ![r] = "save"]
  /\ UNCHANGED <<cfg, world, nbatches, test_batches, disk, fetched, iteration, best_mIoU,
                 best_iteration, current_mIoU, lr_fea, lr_cls, grad, weights,
                 opt_steps, evalLog, miouLog, writeLog, events, tst, sp>>

\* lines 169-170
TrainMode(r) ==
  /\ pc[r] = "train_mode"
  /\ training' = [training EXCEPT ![r] = [feature_extractor |-> TRUE, classifier |-> TRUE]]
  /\ pc' = [pc EXCEPT ![r] = "save"]
  /\ UNCHANGED <<cfg, world, nbatches, test_batches, disk, fetched, iteration, best_mIoU,
                 best_iteration, current_mIoU, lr_fea, lr_cls, grad, weights,
                 opt_steps, evalLog, miouLog, writeLog, events, tst, sp>>

\* lines 171-186
Save(r) ==
  /\ pc[r] = "save"
  /\ IF save_to_disk(r)
     THEN IF IsNewBest(current_mIoU[r], best_mIoU[r])
          THEN /\ disk' = [disk EXCEPT !.best = Checkpoint(r)]
               /\ best_mIoU' = [best_mIoU EXCEPT ![r] = current_mIoU[r]]
               /\ best_iteration' = [best_iteration EXCEPT ![r] = iteration[r]]
               /\ writeLog' = [writeLog EXCEPT ![r] = Append(@,
                     [file |-> "model_best.pth", iteration |-> iteration[r],
                      steps |-> opt_steps[r]])]
          ELSE /\ disk' = [disk EXCEPT !.current = Checkpoint(r)]
               /\ writeLog' = [writeLog EXCEPT ![r] = Append(@,
                     [file |-> "model_current.pth", iteration |-> iteration[r],
                      steps |-> opt_steps[r]])]
               /\ UNCHANGED <<best_mIoU, best_iteration>>
     ELSE UNCHANGED <<disk, best_mIoU, best_iteration, writeLog>>
  /\ events' = [events EXCEPT ![r] = Append(@, "checkpoint")]
  /\ pc' = [pc EXCEPT ![r] = "break_test"]
  /\ UNCHANGED <<cfg, world, nbatches, test_batches, fetched, iteration, current_mIoU, lr_fea,
                 lr_cls, training, grad, weights, opt_steps, evalLog, miouLog, tst, sp>>

\* lines 188-191
BreakTest(r) ==
  /\ pc[r] = "break_test"
  /\ pc' = [pc EXCEPT ![r] =
        IF iteration[r] = cfg.MAX_ITER THEN "done"
        ELSE IF iteration[r] = cfg.STOP_ITER THEN "done"
        ELSE "loop"]
  /\ UNCHANGED <<cfg, world, nbatches, test_batches, disk, fetched, iteration, best_mIoU,
                 best_iteration, current_mIoU, lr_fea, lr_cls, training, grad, weights,
                 opt_steps, evalLog, miouLog, writeLog, events, tst, sp>>

Next ==
  \/ \E r \in Ranks : Start(r)
  \/ \E r \in Ranks : LoopNext(r)
  \/ \E r \in Ranks : SetLR(r)
  \/ \E r \in Ranks : ZeroGrad(r)
  \/ \E r \in Ranks : Forward(r)
  \/ Backward
  \/ \E r \in Ranks : StepFea(r)
  \/ \E r \in Ranks : StepCls(r)
  \/ \E r \in Ranks : Incr(r)
  \/ \E r \in Ranks : EvalTest(r)
  \/ RunTest
  \/ \E r \in Ranks : RunTestEmpty(r)
  \/ \E r \in Ranks : TrainMode(r)
  \/ \E r \in Ranks : Save(r)
  \/ \E r \in Ranks : BreakTest(r)

\* The value of the variables of a state machine that is not running
Idle == <<"idle">>

Init == InitTrain /\ tst = Idle /\ sp = Idle

Spec == Init /\ [][Next]_vars

\* Every process runs on its own and is never suspended for ever: some step is
\* taken as long as one is possible.
FairSpec == Init /\ [][Next]_vars /\ WF_vars(Next)

(***************************************************************************)
(* Claims about train()                                                    *)
(***************************************************************************)
\* The position of the first element of s equal to v (0 if there is none)
RECURSIVE FirstIndex(_, _)
FirstIndex(s, v) ==
  IF s = <<>> THEN 0
  ELSE IF Head(s) = v THEN 1
  ELSE IF FirstIndex(Tail(s), v) = 0 THEN 0 ELSE 1 + FirstIndex(Tail(s), v)

\* Rank 0 is outside the window between run_test's return and the end of
\* the checkpoint block that follows it.
Settled == pc[0] \notin {"train_mode", "save"}

\* The iterations 1..n at which an evaluation is due, in increasing order
RECURSIVE DueSeq(_)
DueSeq(n) ==
  IF n <= 0 THEN <<>>
  ELSE IF n % cfg.CHECKPOINT_PERIOD = 0 \/ n = cfg.STOP_ITER
       THEN Append(DueSeq(n - 1), n)
       ELSE DueSeq(n - 1)

\* The optimizer steps the loop has fully accounted for on rank r
Decided(r) == IF pc[r] = "eval_test" THEN iteration[r] - 1 ELSE iteration[r]

\* The weights of a network after n optimizer steps of this run
WeightsAfter(n) ==
  IF cfg.resume # "" THEN <<PrevCkpt.feature_extractor[1], PrevCkpt.feature_extractor[2] + n>>
  ELSE <<"init", n>>

\* C1: on rank 0, once an evaluation's checkpoint block is over, best_mIoU is
\* the maximum of 0 and all mIoUs returned so far, best_iteration is the
\* earliest iteration that returned that maximum (0 if none was above 0), and
\* model_best.pth was last written at best_iteration with the weights of that
\* iteration (so a later tie did not overwrite it); with no mIoU above 0 the
\* run has not written model_best.pth.
ClaimC1_BestModel ==
  Settled =>
    /\ best_mIoU[0] = SeqMax(miouLog)
    /\ best_iteration[0] =
         (IF SeqMax(miouLog) = 0 THEN 0
          ELSE evalLog[0][FirstIndex(miouLog, SeqMax(miouLog))])
    /\ IF best_iteration[0] > 0
       THEN /\ disk.best.run = "this"
            /\ disk.best.iteration = best_iteration[0]
            /\ disk.best.mIoU = best_mIoU[0]
            /\ disk.best.feature_extractor = WeightsAfter(best_iteration[0])
            /\ disk.best.classifier = WeightsAfter(best_iteration[0])
       ELSE disk.best.run # "this"

\* C1 witness: two evaluations returned the same best mIoU above 0, and the
\* later one is over.
WitnessC1_TieAfterBest ==
  /\ Settled
  /\ \E j, k \in 1 .. Len(miouLog) :
       j < k /\ miouLog[j] = SeqMax(miouLog) /\ miouLog[k] = miouLog[j] /\ miouLog[j] > 0
  /\ pc[0] = "done"

\* C2: on every rank run_test has been called exactly once at each iteration
\* n that is a multiple of CHECKPOINT_PERIOD or equal to STOP_ITER, and at no
\* other; the list depends on the iteration count and the configuration only,
\* so two ranks that completed the same iterations evaluated at the same ones.
ClaimC2_EvalPoints ==
  /\ \A r \in Ranks : evalLog[r] = DueSeq(Decided(r))
  /\ \A r1, r2 \in Ranks :
       Decided(r1) = Decided(r2) => evalLog[r1] = evalLog[r2]

\* C2 witness: a distributed run in which a rank other than 0 evaluated at a
\* multiple of the period and at a STOP_ITER that is no multiple of it.
WitnessC2_PeriodAndStop ==
  /\ world > 1
  /\ cfg.STOP_ITER % cfg.CHECKPOINT_PERIOD # 0
  /\ \A r \in Ranks : pc[r] = "done"
  /\ Len(evalLog[1]) >= 2
  /\ evalLog[1][Len(evalLog[1])] = cfg.STOP_ITER

\* The evaluations of rank 0 whose checkpoint block is over
SavedEvals ==
  Len(evalLog[0]) - (IF pc[0] \in {"test_run", "train_mode", "save"} THEN 1 ELSE 0)

\* C4: rank 0 has made exactly one torch.save per evaluation point, to
\* model_best.pth if that evaluation's mIoU was strictly above the best of the
\* earlier ones (and 0), else to model_current.pth, its 'iteration' the number
\* of optimizer steps completed; the files hold what was last saved to them;
\* the other ranks have saved nothing and their best_mIoU and best_iteration
\* are still 0.
ClaimC4_Checkpointing ==
  /\ Len(writeLog[0]) = SavedEvals
  /\ \A k \in 1 .. Len(writeLog[0]) :
       /\ writeLog[0][k].iteration = evalLog[0][k]
       /\ writeLog[0][k].steps = [fea |-> evalLog[0][k], cls |-> evalLog[0][k]]
       /\ writeLog[0][k].file =
            (IF miouLog[k] > SeqMax(SubSeq(miouLog, 1, k - 1))
             THEN "model_best.pth" ELSE "model_current.pth")
  /\ \A f \in {"model_best.pth", "model_current.pth"} :
       LET d == IF f = "model_best.pth" THEN disk.best ELSE disk.current
           ks == {k \in 1 .. Len(writeLog[0]) : writeLog[0][k].file = f}
       IN IF ks = {}
          THEN d.run # "this"
          ELSE LET k == CHOOSE x \in ks : \A y \in ks : y <= x
               IN d.run = "this" /\ d.iteration = evalLog[0][k] /\ d.mIoU = miouLog[k]
  /\ \A r \in Ranks \ {0} :
       writeLog[r] = <<>> /\ best_mIoU[r] = 0 /\ best_iteration[r] = 0

\* C4 witness: rank 0 stands at an evaluation point whose run_test raised, the
\* test loader being empty, and has written no checkpoint file.
WitnessC4_EvaluationRaised ==
  /\ test_batches = 0
  /\ pc[0] = "raised"
  /\ evalLog[0] # <<>>
  /\ writeLog[0] = <<>>
  /\ disk.current = Absent

\* The number of optimizer steps C5 gives
ExpectedSteps ==
  IF nbatches >= Min2(cfg.MAX_ITER, cfg.STOP_ITER)
  THEN Min2(cfg.MAX_ITER, cfg.STOP_ITER)
  ELSE nbatches

\* train() is over on a rank: the loop was left by a break or by the end of
\* the loader, or by the exception of a run_test that did not return
Ended(r) == pc[r] \in {"done", "raised"}

\* A rank that left the loop did the steps C5 gives, took no more batches than
\* one pass yields, and, if its count reached STOP_ITER, evaluated at that
\* iteration (rank 0: and wrote a checkpoint holding that iteration).
C5Final ==
  \A r \in Ranks :
    Ended(r) =>
      /\ opt_steps[r] = [fea |-> ExpectedSteps, cls |-> ExpectedSteps]
      /\ iteration[r] = ExpectedSteps
      /\ fetched[r] = ExpectedSteps
      /\ fetched[r] <= nbatches
      /\ iteration[r] = cfg.STOP_ITER =>
           /\ evalLog[r] # <<>>
           /\ evalLog[r][Len(evalLog[r])] = cfg.STOP_ITER
           /\ r = 0 => /\ writeLog[0] # <<>>
                       /\ writeLog[0][Len(writeLog[0])].iteration = cfg.STOP_ITER

\* C5: every rank leaves the loop, and one that has left it did exactly
\* min(MAX_ITER, STOP_ITER) steps if one pass over the loader yields as many
\* batches, else as many as the pass yields, with an evaluation (and rank 0's
\* checkpoint) at the final iteration if it is STOP_ITER.
ClaimC5_Termination == []C5Final /\ <>(\A r \in Ranks : Ended(r))

\* C5 witness: train() has ended on every rank in the first evaluation, whose
\* run_test raised, with fewer optimizer steps than C5 gives.
WitnessC5_EndedInEvaluation ==
  /\ test_batches = 0
  /\ \A r \in Ranks : pc[r] = "raised"
  /\ iteration[0] < ExpectedSteps
  /\ opt_steps[0].cls < ExpectedSteps

\* C6: when optimizer_fea is about to take its k-th step every one of its
\* parameter groups has the rate adjust_learning_rate(LR_METHOD, BASE_LR, k-1,
\* MAX_ITER, LR_POWER), and when optimizer_cls is about to take its k-th step
\* every one of its groups has 10 times that rate.
ClaimC6_LearningRate ==
  \A r \in Ranks :
    /\ pc[r] = "step_fea" =>
         \A g \in DOMAIN lr_fea[r] :
           lr_fea[r][g] = adjust_learning_rate(cfg.LR_METHOD, cfg.BASE_LR,
                             opt_steps[r].fea, cfg.MAX_ITER, cfg.LR_POWER)
    /\ pc[r] = "step_cls" =>
         \A g \in DOMAIN lr_cls[r] :
           lr_cls[r][g] = Times10(adjust_learning_rate(cfg.LR_METHOD, cfg.BASE_LR,
                             opt_steps[r].cls, cfg.MAX_ITER, cfg.LR_POWER))

\* C6 witness: a second or later step of optimizer_cls is about to be taken
\* in a run that stops before MAX_ITER.
WitnessC6_LaterStep ==
  \E r \in Ranks :
    pc[r] = "step_cls" /\ opt_steps[r].cls >= 1 /\ cfg.STOP_ITER < cfg.MAX_ITER

\* The order of the events of one iteration
IterationOrder ==
  <<"set_lr", "zero_grad", "forward", "backward", "step_fea", "step_cls", "incr",
    "run_test", "checkpoint">>

\* C7: the events of an iteration are an initial part of the fixed order; an
\* optimizer about to step has gradients that were zeroed and then computed
\* by backward in this iteration; the counter is the number of completed
\* optimizer_cls steps whenever the evaluation test, run_test, the checkpoint
\* block or the break tests read it, and one less only between the step and
\* the increment.
ClaimC7_StepOrder ==
  \A r \in Ranks :
    /\ IsPrefix(events[r], IterationOrder)
    /\ pc[r] = "step_fea" =>
         /\ grad[r].fea = "fresh"
         /\ SubSeq(events[r], 1, 4) = SubSeq(IterationOrder, 1, 4)
    /\ pc[r] = "step_cls" =>
         /\ grad[r].cls = "fresh"
         /\ SubSeq(events[r], 1, 5) = SubSeq(IterationOrder, 1, 5)
    /\ pc[r] \in {"eval_test", "test_run", "train_mode", "save", "break_test"} =>
         iteration[r] = opt_steps[r].cls
    /\ iteration[r] = opt_steps[r].cls - (IF pc[r] = "incr" THEN 1 ELSE 0)
    /\ opt_steps[r].fea = opt_steps[r].cls + (IF pc[r] = "step_cls" THEN 1 ELSE 0)

\* C7 witness: a second or later iteration went through all nine events.
WitnessC7_FullIteration ==
  \E r \in Ranks : events[r] = IterationOrder /\ iteration[r] >= 2

\* C8: a training forward or backward pass, an optimizer step and the
\* checkpoint block find both networks in training mode; the forward passes
\* of run_test find both in evaluation mode.
ClaimC8_Modes ==
  \A r \in Ranks :
    /\ pc[r] \in {"forward", "backward", "step_fea", "step_cls", "save"} =>
         training[r].feature_extractor /\ training[r].classifier
    /\ pc[r] = "test_run" =>
         ~training[r].feature_extractor /\ ~training[r].classifier

\* C8 witness: a training forward pass that follows an evaluation.
WitnessC8_ForwardAfterTest ==
  \E r \in Ranks : pc[r] = "forward" /\ evalLog[r] # <<>>

\* C9: at loop entry the counters and the optimizers are those of a fresh
\* run whether or not cfg.resume is set, only the weights differ; and once
\* an evaluation has returned an mIoU above 0 the first such evaluation wrote
\* model_best.pth, so the file is this run's.
ClaimC9_Resume ==
  /\ \A r \in Ranks :
       (pc[r] = "loop" /\ fetched[r] = 0) =>
         /\ iteration[r] = 0
         /\ best_mIoU[r] = 0
         /\ best_iteration[r] = 0
         /\ opt_steps[r] = [fea |-> 0, cls |-> 0]
         /\ weights[r] =
              (IF cfg.resume # ""
               THEN [feature_extractor |-> PrevCkpt.feature_extractor,
                     classifier |-> PrevCkpt.classifier]
               ELSE [feature_extractor |-> <<"init", 0>>, classifier |-> <<"init", 0>>])
  /\ (Settled /\ SeqMax(miouLog) > 0) =>
       LET k == CHOOSE x \in 1 .. Len(miouLog) :
                  miouLog[x] > 0 /\ \A y \in 1 .. (x - 1) : miouLog[y] = 0
       IN /\ writeLog[0][k].file = "model_best.pth"
          /\ disk.best.run = "this"

\* C9 witness: a resumed run replaced the model_best.pth it found by a model
\* with a lower mIoU.
WitnessC9_ReplacedBetterModel ==
  /\ cfg.resume # ""
  /\ Settled
  /\ disk.best.run = "this"
  /\ disk.best.mIoU < PrevCkpt.mIoU

(***************************************************************************)
(* run_test() batch by batch (lines 201-263)                               *)
(*                                                                         *)
(* tst is a record: world (number of ranks), ntest (len(test_loader), the  *)
(* same on every rank under DistributedSampler), and per rank pc, i (the   *)
(* batches taken), k (which of the three all_reduce calls of line 242 is   *)
(* next), x (the tensors intersection, union, target), meter (the three    *)
(* AverageMeters), calls (the all_reduce calls issued), result; total is   *)
(* the sum of the counts of every batch of every rank, kept for C3.        *)
(***************************************************************************)
\* The classes 0 .. NUM_CLASSES-1 of a run with cfg.MODEL.NUM_CLASSES = 2. Two
\* classes tell per-class sums from sums over the classes; the reachable
\* states grow by a factor of about 18 per class added.
Classes == {0, 1}
NumClasses == Cardinality(Classes)
Kinds == <<"intersection", "union", "target">>
Zeros == [c \in Classes |-> 0]
VAdd(u, v) == [c \in Classes |-> u[c] + v[c]]

\* A test batch is one labelled pixel: its predicted class and its label.
Pixels == [pred : Classes, target : Classes]

\* core.utils.misc.intersectionAndUnionGPU(output, y, NUM_CLASSES, IGNORE_LABEL)
\* is outside src/: per class, the pixels predicted and labelled with it, the
\* pixels predicted or labelled with it, and the pixels labelled with it.
intersectionAndUnionGPU(px) ==
  LET area_intersection == [c \in Classes |->
                              IF px.pred = c /\ px.target = c THEN 1 ELSE 0]
      area_output == [c \in Classes |-> IF px.pred = c THEN 1 ELSE 0]
      area_target == [c \in Classes |-> IF px.target = c THEN 1 ELSE 0]
  IN [intersection |-> area_intersection,
      union |-> [c \in Classes |-> area_output[c] + area_target[c] - area_intersection[c]],
      target |-> area_target]

\* core.utils.misc.AverageMeter is outside src/. AverageMeter() takes no
\* argument and the same class takes the float of line 247, so a new meter
\* cannot hold per-class arrays: val and sum start as the number 0.
NewMeter == [val |-> 0, sum |-> 0, count |-> 0]
\* update(val) with n = 1 keeps val and adds it to sum; the number 0 plus an
\* array is that array.
MeterUpdate(m, v) ==
  [val |-> v, sum |-> IF m.count = 0 THEN v ELSE VAdd(m.sum, v), count |-> m.count + 1]
\* The per-class totals a meter holds: those of a meter never updated are 0
MeterSum(m) == IF m.count = 0 THEN Zeros ELSE m.sum

\* Exact fractions <<numerator, denominator>> in lowest terms. n / (d + 1e-10)
\* is taken as n / d, and as 0 when d = 0 (then n = 0 too: an intersection is
\* never above its union or its target).
RECURSIVE Gcd(_, _)
Gcd(a, b) == IF b = 0 THEN a ELSE Gcd(b, a % b)
Frac(n, d) == IF d = 0 \/ n = 0 THEN <<0, 1>> ELSE <<n \div Gcd(n, d), d \div Gcd(n, d)>>
FAdd(f, g) == Frac(f[1] * g[2] + g[1] * f[2], f[2] * g[2])

RECURSIVE FSum(_, _)
FSum(q, n) == IF n = 0 THEN <<0, 1>> ELSE FAdd(FSum(q, n - 1), q[n - 1])

RECURSIVE VSum(_, _)
VSum(v, n) == IF n = 0 THEN 0 ELSE VSum(v, n - 1) + v[n - 1]

\* np.mean over the classes
Mean(q) == LET t == FSum(q, NumClasses) IN Frac(t[1], t[2] * NumClasses)

\* lines 251-255
Metrics(isum, usum, tsum) ==
  LET iou_class == [c \in Classes |-> Frac(isum[c], usum[c])]
      accuracy_class == [c \in Classes |-> Frac(isum[c], tsum[c])]
  IN [mIoU |-> Mean(iou_class), mAcc |-> Mean(accuracy_class),
      allAcc |-> Frac(VSum(isum, NumClasses), VSum(tsum, NumClasses))]

TRanks == 0 .. (tst.world - 1)

\* run_test has been entered and the networks put in evaluation mode (lines
\* 201-229): the test loop is about to start.
TestState(w, n) ==
  [world |-> w, ntest |-> n,
   pc |-> [r \in 0 .. (w - 1) |-> "t_loop"],
   i |-> [r \in 0 .. (w - 1) |-> 0],
   k |-> [r \in 0 .. (w - 1) |-> 1],
   x |-> [r \in 0 .. (w - 1) |-> [intersection |-> Zeros, union |-> Zeros, target |-> Zeros]],
   meter |-> [r \in 0 .. (w - 1) |->
                [intersection |-> NewMeter, union |-> NewMeter, target |-> NewMeter]],
   calls |-> [r \in 0 .. (w - 1) |-> <<>>],
   result |-> [r \in 0 .. (w - 1) |-> [mIoU |-> <<0, 1>>, mAcc |-> <<0, 1>>, allAcc |-> <<0, 1>>]],
   total |-> [intersection |-> Zeros, union |-> Zeros, target |-> Zeros]]

\* line 231: the for statement takes the next batch, or ends the loop
TLoop(r) ==
  /\ tst.pc[r] = "t_loop"
  /\ tst' = IF tst.i[r] < tst.ntest
            THEN [tst EXCEPT !.i[r] = @ + 1, !.pc[r] = "t_forward"]
            ELSE [tst EXCEPT !.pc[r] = "t_result"]
  /\ UNCHANGED <<trainVars, sp>>

\* lines 232-241: the forward pass and the counts of the batch
TForward(r) ==
  /\ tst.pc[r] = "t_forward"
  /\ \E px \in Pixels :
       LET c == intersectionAndUnionGPU(px)
       IN tst' = [tst EXCEPT
                    !.x[r] = c,
                    !.total = [intersection |-> VAdd(@.intersection, c.intersection),
                               union |-> VAdd(@.union, c.union),
                               target |-> VAdd(@.target, c.target)],
                    !.k[r] = 1,
                    !.pc[r] = IF tst.world > 1 THEN "t_all_reduce" ELSE "t_update"]
  /\ UNCHANGED <<trainVars, sp>>

\* lines 242-243: a rank issues its next all_reduce and waits in it
TAllReduce(r) ==
  /\ tst.pc[r] = "t_all_reduce"
  /\ tst' = [tst EXCEPT !.calls[r] = Append(@, <<tst.i[r], Kinds[tst.k[r]]>>),
                        !.pc[r] = "t_in_all_reduce"]
  /\ UNCHANGED <<trainVars, sp>>

RECURSIVE ReduceSum(_)
\* the sum over ranks 0..n-1 of the tensor each has put into the collective
ReduceSum(n) ==
  IF n = 0 THEN Zeros ELSE VAdd(ReduceSum(n - 1), tst.x[n - 1][Kinds[tst.k[n - 1]]])

\* Mutant: the collective leaves every rank's tensor as it was.
TAllReduceDone_local ==
  /\ \A r \in TRanks : tst.pc[r] = "t_in_all_reduce"
  /\ tst' = [tst EXCEPT
               !.k = [r \in TRanks |-> IF tst.k[r] < Len(Kinds) THEN tst.k[r] + 1 ELSE tst.k[r]],
               !.pc = [r \in TRanks |-> IF tst.k[r] < Len(Kinds) THEN "t_all_reduce" ELSE "t_update"]]
  /\ UNCHANGED <<trainVars, sp>>

\* torch.distributed.all_reduce (default op SUM): once every rank is in the
\* collective each one's tensor becomes the sum of all of them, in place
TAllReduceDone ==
  /\ \A r \in TRanks : tst.pc[r] = "t_in_all_reduce"
  /\ tst' = [tst EXCEPT
               !.x = [r \in TRanks |->
                        [tst.x[r] EXCEPT ![Kinds[tst.k[r]]] = ReduceSum(tst.world)]],
               !.k = [r \in TRanks |-> IF tst.k[r] < Len(Kinds) THEN tst.k[r] + 1 ELSE tst.k[r]],
               !.pc = [r \in TRanks |-> IF tst.k[r] < Len(Kinds) THEN "t_all_reduce" ELSE "t_update"]]
  /\ UNCHANGED <<trainVars, sp>>

\* lines 244-249
TUpdate(r) ==
  /\ tst.pc[r] = "t_update"
  /\ tst' = [tst EXCEPT
               !.meter[r] = [intersection |-> MeterUpdate(@.intersection, tst.x[r].intersection),
                             union |-> MeterUpdate(@.union, tst.x[r].union),
                             target |-> MeterUpdate(@.target, tst.x[r].target)],
               !.pc[r] = "t_loop"]
  /\ UNCHANGED <<trainVars, sp>>

\* lines 251-263. After a loop without a pass the sums are the number 0:
\* lines 251-254 give 0 / (0 + 1e-10) = 0 and sum(0) of line 255 raises
\* TypeError, so the rank does not return.
TResult(r) ==
  /\ tst.pc[r] = "t_result"
  /\ tst' = IF tst.meter[r].intersection.count = 0
            THEN [tst EXCEPT !.pc[r] = "t_raised"]
            ELSE [tst EXCEPT
                    !.result[r] = Metrics(tst.meter[r].intersection.sum,
                                          tst.meter[r].union.sum,
                                          tst.meter[r].target.sum),
                    !.pc[r] = "t_done"]
  /\ UNCHANGED <<trainVars, sp>>

NextTest ==
  \/ \E r \in TRanks : TLoop(r)
  \/ \E r \in TRanks : TForward(r)
  \/ \E r \in TRanks : TAllReduce(r)
  \/ TAllReduceDone
  \/ \E r \in TRanks : TUpdate(r)
  \/ \E r \in TRanks : TResult(r)

IdleTrain ==
  /\ cfg = Idle /\ world = Idle /\ nbatches = Idle /\ test_batches = Idle
  /\ disk = Idle /\ pc = Idle
  /\ fetched = Idle /\ iteration = Idle /\ best_mIoU = Idle /\ best_iteration = Idle
  /\ current_mIoU = Idle /\ lr_fea = Idle /\ lr_cls = Idle /\ training = Idle
  /\ grad = Idle /\ weights = Idle /\ opt_steps = Idle /\ evalLog = Idle
  /\ miouLog = Idle /\ writeLog = Idle /\ events = Idle

InitTest ==
  /\ tst \in {TestState(w, n) : w \in 1 .. WorldSize, n \in 0 .. MaxTestBatches}
  /\ IdleTrain
  /\ sp = Idle

SpecTest == InitTest /\ [][NextTest]_vars

\* The all_reduce calls of n batches: three per batch, in the order of line 242
RECURSIVE ExpectedCalls(_)
ExpectedCalls(n) ==
  IF n = 0 THEN <<>>
  ELSE ExpectedCalls(n - 1) \o <<<<n, "intersection">>, <<n, "union">>, <<n, "target">>>>

\* C3: in a distributed evaluation the all_reduce calls of any two ranks are
\* the same sequence as far as both have got, a rank that has left the test
\* loop has issued three per batch, its three meters hold, per class, the sum
\* of the counts of all batches of all ranks, and the ranks that have returned
\* have returned the same mIoU, mAcc and allAcc, those of these sums.
ClaimC3_Aggregation ==
  tst.world > 1 =>
    /\ \A r1, r2 \in TRanks :
         IsPrefix(tst.calls[r1], tst.calls[r2]) \/ IsPrefix(tst.calls[r2], tst.calls[r1])
    /\ \A r \in TRanks :
         tst.pc[r] \in {"t_result", "t_done", "t_raised"} =>
           /\ tst.calls[r] = ExpectedCalls(tst.ntest)
           /\ MeterSum(tst.meter[r].intersection) = tst.total.intersection
           /\ MeterSum(tst.meter[r].union) = tst.total.union
           /\ MeterSum(tst.meter[r].target) = tst.total.target
    /\ \A r1, r2 \in TRanks :
         (tst.pc[r1] = "t_done" /\ tst.pc[r2] = "t_done") =>
           tst.result[r1] = tst.result[r2]
    /\ \A r \in TRanks :
         tst.pc[r] = "t_done" =>
           /\ tst.result[r].allAcc =
                Frac(VSum(tst.total.intersection, NumClasses),
                     VSum(tst.total.target, NumClasses))
           /\ tst.result[r].mIoU =
                Mean([c \in Classes |-> Frac(tst.total.intersection[c], tst.total.union[c])])
           /\ tst.result[r].mAcc =
                Mean([c \in Classes |-> Frac(tst.total.intersection[c], tst.total.target[c])])

\* C3 witness: every rank of a distributed evaluation of two or more batches
\* has returned, with an mIoU strictly between 0 and 1 and counts that no
\* single rank saw alone.
WitnessC3_AllReturned ==
  /\ tst.world > 1
  /\ tst.ntest >= 2
  /\ \A r \in TRanks : tst.pc[r] = "t_done"
  /\ tst.result[0].mIoU \notin {<<0, 1>>, <<1, 1>>}
  /\ VSum(tst.total.target, NumClasses) > tst.ntest

(***************************************************************************)
(* strip_prefix_if_present (lines 22-32)                                   *)
(*                                                                         *)
(* A string is a sequence of characters, a state dict a sequence of        *)
(* [key, value] records with distinct keys, in insertion order.            *)
(***************************************************************************)
S_module == <<"m", "o", "d", "u", "l", "e", ".">>
S_layer5 == <<"l", "a", "y", "e", "r", "5">>

\* str.startswith
StartsWith(s, p) == Len(p) <= Len(s) /\ SubSeq(s, 1, Len(p)) = p

RECURSIVE RemoveAll(_, _)
\* str.replace(p, ""): the occurrences of p, found left to right without
\* overlap, are removed
RemoveAll(s, p) ==
  IF p = <<>> \/ s = <<>> THEN s
  ELSE IF StartsWith(s, p) THEN RemoveAll(SubSeq(s, Len(p) + 1, Len(s)), p)
  ELSE <<Head(s)>> \o RemoveAll(Tail(s), p)

\* OrderedDict.__setitem__: a present key keeps its place, a new one goes last
Put(d, key, value) ==
  IF \E j \in 1 .. Len(d) : d[j].key = key
  THEN [j \in 1 .. Len(d) |-> IF d[j].key = key THEN [key |-> key, value |-> value] ELSE d[j]]
  ELSE Append(d, [key |-> key, value |-> value])

RECURSIVE StripItems(_, _, _)
\* lines 27-31: the loop over state_dict.items(), n items done
StripItems(d, prefix, n) ==
  IF n = 0 THEN <<>>
  ELSE IF StartsWith(d[n].key, prefix \o S_layer5)
       THEN StripItems(d, prefix, n - 1)
       ELSE Put(StripItems(d, prefix, n - 1), RemoveAll(d[n].key, prefix), d[n].value)

\* lines 22-32
strip_prefix_if_present(state_dict, prefix) ==
  IF ~ \A j \in 1 .. Len(state_dict) : StartsWith(state_dict[j].key, prefix)
  THEN state_dict
  ELSE StripItems(state_dict, prefix, Len(state_dict))

\* The keys tried: "module.a", "module.layer5.w", "module.layer", "a",
\* "layer5.w", "module.b.module.a", "module.module.a", "module.modmodule.ule.a"
StripKeys ==
  {S_module \o <<"a">>,
   S_module \o S_layer5 \o <<".", "w">>,
   S_module \o <<"l", "a", "y", "e", "r">>,
   <<"a">>,
   S_layer5 \o <<".", "w">>,
   S_module \o <<"b", ".">> \o S_module \o <<"a">>,
   S_module \o S_module \o <<"a">>,
   S_module \o <<"m", "o", "d">> \o S_module \o <<"u", "l", "e", ".", "a">>}

\* The prefixes tried: 'module.' (lines 85, 88) and the empty string
StripPrefixes == {S_module, <<>>}

\* The state dicts tried: up to MaxKeys distinct keys, the j-th with value j
StateDicts ==
  UNION {{[j \in 1 .. n |-> [key |-> ks[j], value |-> j]] :
            ks \in {f \in [1 .. n -> StripKeys] :
                      \A a, b \in 1 .. n : a # b => f[a] # f[b]}} :
         n \in 0 .. MaxKeys}

InitStrip ==
  /\ sp \in {[pc |-> "call", state_dict |-> d, prefix |-> p, out |-> <<>>, again |-> <<>>] :
               d \in StateDicts, p \in StripPrefixes}
  /\ IdleTrain
  /\ tst = Idle

\* the call of strip_prefix_if_present(state_dict, prefix)
Strip ==
  /\ sp.pc = "call"
  /\ sp' = [sp EXCEPT !.out = strip_prefix_if_present(sp.state_dict, sp.prefix),
                      !.pc = "stripped"]
  /\ UNCHANGED <<trainVars, tst>>

\* the function applied to its own result
StripAgain ==
  /\ sp.pc = "stripped"
  /\ sp' = [sp EXCEPT !.again = strip_prefix_if_present(sp.out, sp.prefix),
                      !.pc = "stripped_twice"]
  /\ UNCHANGED <<trainVars, tst>>

NextStrip == Strip \/ StripAgain

SpecStrip == InitStrip /\ [][NextStrip]_vars

\* The items of d, in order, whose key does not start with prefix + 'layer5',
\* each key without its first Len(prefix) characters
RECURSIVE LeadingStripped(_, _, _)
LeadingStripped(d, prefix, n) ==
  IF n = 0 THEN <<>>
  ELSE IF StartsWith(d[n].key, prefix \o S_layer5)
       THEN LeadingStripped(d, prefix, n - 1)
       ELSE Append(LeadingStripped(d, prefix, n - 1),
                   [key |-> SubSeq(d[n].key, Len(prefix) + 1, Len(d[n].key)),
                    value |-> d[n].value])

\* C10: the result is the input itself if some key does not start with
\* prefix; otherwise it holds, in the input's order, one entry per key that
\* does not start with prefix + 'layer5', the key without its leading prefix
\* and the value unchanged, and nothing else; and the function applied to its
\* own result returns that result.
ClaimC10_StripPrefix ==
  /\ sp.pc \in {"stripped", "stripped_twice"} =>
       sp.out = (IF \E j \in 1 .. Len(sp.state_dict) :
                      ~StartsWith(sp.state_dict[j].key, sp.prefix)
                 THEN sp.state_dict
                 ELSE LeadingStripped(sp.state_dict, sp.prefix, Len(sp.state_dict)))
  /\ sp.pc = "stripped_twice" => sp.again = sp.out

====
